---- MODULE Spec2Model ----
(***************************************************************************)
(* A model of bot.py, the SPY alert bot: one invocation reads the clock,   *)
(* checks the UTC trading window, fetches the open position from the       *)
(* brokerage, decides by MODE and minute-of-hour, and mails an alert.      *)
(*                                                                         *)
(* Text the program parses (MODE, the window boundaries, the qty field) is *)
(* a sequence of one-character strings, so that split, int, float and      *)
(* upper are computed character by character.  Text the program only       *)
(* produces (subjects, body lines, printed lines) is a TLA+ string.        *)
(***************************************************************************)
EXTENDS Integers, Sequences, FiniteSets, TLC

\* ------------------------------------------------------------- bounds

\* Invocations the external scheduler may have in flight at once.
MaxProcs == 2
\* Largest whole part of a qty string the brokerage reports.
MaxQty == 2
\* Calendar days the clock of the window check ranges over.
MaxDay == 2

Procs == 1..MaxProcs

\* ------------------------------------------------------------- values

None == <<>>
Some(x) == <<x>>
Get(o) == o[1]

Raise(e) == [ok |-> FALSE, exc |-> e]
Return(v) == [ok |-> TRUE, val |-> v]

Digits == <<"0", "1", "2", "3", "4", "5", "6", "7", "8", "9">>

IsDigit(c) == \E i \in 1..10 : Digits[i] = c

DigitVal(c) == (CHOOSE i \in 1..10 : Digits[i] = c) - 1

\* str(n) for a non-negative integer
RECURSIVE NatStr(_)
NatStr(n) == IF n < 10 THEN Digits[n + 1] ELSE NatStr(n \div 10) \o Digits[(n % 10) + 1]

\* str(n), as an f-string interpolates an int
IntStr(n) == IF n < 0 THEN "-" \o NatStr(-n) ELSE NatStr(n)

\* ------------------------------------------------------------- state

VARIABLES
    cfg,         \* the module-level configuration read from the environment
    now,         \* the wall clock, UTC
    broker,      \* the answers the brokerage gives to a GET at present
    mailbox,     \* messages the mail server accepted, in order
    pc,          \* per invocation: where it stands
    dt,          \* per invocation: dt of decide_and_notify
    resp,        \* per invocation: the brokerage's answer to its GET
    qty_open,    \* per invocation: qty_open of decide_and_notify
    msg,         \* per invocation: the EmailMessage being sent
    gets,        \* per invocation: paths it issued an HTTP GET for
    sendCalls,   \* per invocation: (subject, body) pairs passed to send_email
    sessions,    \* per invocation: SMTP sessions it opened
    stdout,      \* per invocation: lines printed to standard output
    stderr,      \* per invocation: lines printed to standard error
    exc          \* per invocation: the exception that ended it, if one did

vars == <<cfg, now, broker, mailbox, pc, dt, resp, qty_open, msg, gets, sendCalls,
          sessions, stdout, stderr, exc>>

\* ------------------------------------------------------------- parsing

\* str.split(sep): the pieces of s between the occurrences of sep
RECURSIVE SplitAcc(_, _, _)
SplitAcc(s, sep, cur) ==
    IF s = <<>> THEN <<cur>>
    ELSE IF Head(s) = sep THEN <<cur>> \o SplitAcc(Tail(s), sep, <<>>)
    ELSE SplitAcc(Tail(s), sep, Append(cur, Head(s)))

split(s, sep) == SplitAcc(s, sep, <<>>)

AllDigits(s) == s # <<>> /\ \A i \in 1..Len(s) : IsDigit(s[i])

RECURSIVE DigitsVal(_)
DigitsVal(s) ==
    IF s = <<>> THEN 0
    ELSE DigitsVal(SubSeq(s, 1, Len(s) - 1)) * 10 + DigitVal(s[Len(s)])

\* int(s) of a str: an optional sign, then decimal digits; anything else is a
\* ValueError.  (Whitespace and underscores, which int also accepts, are not
\* in the alphabet of the strings modelled.)
int(s) ==
    LET signed == s # <<>> /\ Head(s) \in {"-", "+"}
        digits == IF signed THEN Tail(s) ELSE s
    IN  IF ~AllDigits(digits) THEN Raise([type |-> "ValueError", status |-> 0])
        ELSE IF signed /\ Head(s) = "-" THEN Return(-DigitsVal(digits))
        ELSE Return(DigitsVal(digits))

\* h, m = hhmm.split(":"); return int(h) * 60 + int(m)
hhmm_to_minutes(hhmm) ==
    LET parts == split(hhmm, ":")
    IN  IF Len(parts) # 2 THEN Raise([type |-> "ValueError", status |-> 0])
        ELSE LET h == int(parts[1])
                 m == int(parts[2])
             IN  IF ~h.ok THEN h
                 ELSE IF ~m.ok THEN m
                 ELSE Return(h.val * 60 + m.val)

\* in_window_utc with the end boundary excluded (t < end).
in_window_utc_ExclusiveEnd(d) ==
    LET t == d.hour * 60 + d.minute
        a == hhmm_to_minutes(cfg.WINDOW_START_UTC)
    IN  IF ~a.ok THEN a
        ELSE IF ~(a.val <= t) THEN Return(FALSE)
        ELSE LET b == hhmm_to_minutes(cfg.WINDOW_END_UTC)
             IN  IF ~b.ok THEN b ELSE Return(t < b.val)

\* dt.hour * 60 + dt.minute between the two boundaries, both ends included.
\* Python's chained comparison a <= t <= b evaluates b only when a <= t holds,
\* so a malformed end boundary raises only then.
in_window_utc(d) ==
    LET t == d.hour * 60 + d.minute
        a == hhmm_to_minutes(cfg.WINDOW_START_UTC)
    IN  IF ~a.ok THEN a
        ELSE IF ~(a.val <= t) THEN Return(FALSE)
        ELSE LET b == hhmm_to_minutes(cfg.WINDOW_END_UTC)
             IN  IF ~b.ok THEN b ELSE Return(t <= b.val)

LowerCase == <<"a", "b", "c", "d", "e", "f", "g", "h", "i", "j", "k", "l", "m",
               "n", "o", "p", "q", "r", "s", "t", "u", "v", "w", "x", "y", "z">>

UpperCase == <<"A", "B", "C", "D", "E", "F", "G", "H", "I", "J", "K", "L", "M",
               "N", "O", "P", "Q", "R", "S", "T", "U", "V", "W", "X", "Y", "Z">>

UpperChar(c) ==
    IF \E i \in 1..26 : LowerCase[i] = c
    THEN UpperCase[CHOOSE i \in 1..26 : LowerCase[i] = c]
    ELSE c

\* str.upper()
upper(s) == [i \in 1..Len(s) |-> UpperChar(s[i])]

DRY_RUN == <<"D", "R", "Y", "_", "R", "U", "N">>

\* The mode test without .upper(): MODE == "DRY_RUN".
IsDryRun_CaseSensitive == cfg.MODE = DRY_RUN

\* MODE.upper() == "DRY_RUN"
IsDryRun == upper(cfg.MODE) = DRY_RUN

\* float(s) of a str: an optional sign, then "nan", "inf", or decimal digits
\* with at most one point and a digit on at least one side of it; anything
\* else is a ValueError.  (Exponents are not in the alphabet modelled.)
float(s) ==
    LET signed == s # <<>> /\ Head(s) \in {"-", "+"}
        neg == signed /\ Head(s) = "-"
        rest == IF signed THEN Tail(s) ELSE s
        parts == split(rest, ".")
        whole == parts[1]
        frac == IF Len(parts) = 2 THEN parts[2] ELSE <<>>
        digitsOrEmpty(x) == x = <<>> \/ AllDigits(x)
    IN  IF upper(rest) = <<"N", "A", "N">>
        THEN Return([kind |-> "nan", neg |-> neg, whole |-> 0, frac |-> <<>>])
        ELSE IF upper(rest) = <<"I", "N", "F">>
        THEN Return([kind |-> "inf", neg |-> neg, whole |-> 0, frac |-> <<>>])
        ELSE IF /\ Len(parts) <= 2
                /\ digitsOrEmpty(whole)
                /\ digitsOrEmpty(frac)
                /\ (whole # <<>> \/ frac # <<>>)
        THEN Return([kind |-> "finite", neg |-> neg, whole |-> DigitsVal(whole),
                     frac |-> frac])
        ELSE Raise([type |-> "ValueError", status |-> 0])

\* int(x) of a float: truncation toward zero; nan and inf have no integer.
trunc(x) ==
    IF x.kind = "nan" THEN Raise([type |-> "ValueError", status |-> 0])
    ELSE IF x.kind = "inf" THEN Raise([type |-> "OverflowError", status |-> 0])
    ELSE Return(IF x.neg THEN -x.whole ELSE x.whole)

\* ------------------------------------------------------------- brokerage

\* requests.get, raise_for_status, r.json(): r is what the network gave back.
alpaca_get(r) ==
    IF r.kind = "neterr" THEN Raise([type |-> "ConnectionError", status |-> 0])
    ELSE IF r.status >= 400 /\ r.status < 600
    THEN Raise([type |-> "HTTPError", status |-> r.status])
    ELSE IF r.body.kind = "malformed"
    THEN Raise([type |-> "JSONDecodeError", status |-> 0])
    ELSE Return(r.body)

\* get_open_position_qty treating every HTTPError as "no position".
get_open_position_qty_AnyHTTPError(r) ==
    LET got == alpaca_get(r)
    IN  IF got.ok
        THEN LET pos == got.val
             IN  IF pos.kind # "object"
                 THEN Raise([type |-> "AttributeError", status |-> 0])
                 ELSE LET q == IF pos.qty = None THEN <<"0">> ELSE Get(pos.qty)
                          f == float(q)
                      IN  IF f.ok THEN trunc(f.val) ELSE f
        ELSE IF got.exc.type = "HTTPError"
        THEN Return(0)
        ELSE got

\* get_open_position_qty without the 404 case: every HTTPError is re-raised.
get_open_position_qty_No404(r) ==
    LET got == alpaca_get(r)
    IN  IF got.ok
        THEN LET pos == got.val
             IN  IF pos.kind # "object"
                 THEN Raise([type |-> "AttributeError", status |-> 0])
                 ELSE LET q == IF pos.qty = None THEN <<"0">> ELSE Get(pos.qty)
                          f == float(q)
                      IN  IF f.ok THEN trunc(f.val) ELSE f
        ELSE got

\* int(float(pos.get("qty", "0"))), and 0 for an HTTP 404
get_open_position_qty(r) ==
    LET got == alpaca_get(r)
    IN  IF got.ok
        THEN LET pos == got.val
             IN  IF pos.kind # "object"
                 THEN Raise([type |-> "AttributeError", status |-> 0])
                 ELSE LET q == IF pos.qty = None THEN <<"0">> ELSE Get(pos.qty)
                          f == float(q)
                      IN  IF f.ok THEN trunc(f.val) ELSE f
        ELSE IF got.exc.type = "HTTPError" /\ got.exc.status = 404
        THEN Return(0)
        ELSE got

\* ------------------------------------------------------------- alerts

\* The em dash (U+2014) of the two subjects, which a TLA+ string cannot hold.
EM_DASH == "[U+2014]"

buy_alert(qty) ==
    [subject |-> "BUY SPY " \o EM_DASH \o " ACTION REQUIRED",
     body |-> << "BUY " \o cfg.SYMBOL \o " NOW",
                 "Qty: " \o IntStr(qty),
                 "Order: Market",
                 "Max Risk: $50 (paper)",
                 "",
                 "Open Alpaca and BUY within 5 minutes." >>]

\* sell_alert with buy_alert's fixed quantity instead of the held one.
sell_alert_QtyOne(qty, reason) ==
    [subject |-> "SELL SPY " \o EM_DASH \o " ACTION REQUIRED",
     body |-> << "SELL " \o cfg.SYMBOL \o " NOW",
                 "Qty: " \o IntStr(1),
                 "Reason: " \o reason,
                 "",
                 "Open Alpaca and SELL immediately." >>]

sell_alert(qty, reason) ==
    [subject |-> "SELL SPY " \o EM_DASH \o " ACTION REQUIRED",
     body |-> << "SELL " \o cfg.SYMBOL \o " NOW",
                 "Qty: " \o IntStr(qty),
                 "Reason: " \o reason,
                 "",
                 "Open Alpaca and SELL immediately." >>]

\* The completeness test with SMTP_PASS left out.
MailConfigured_NoPass ==
    /\ cfg.TO_EMAIL # ""
    /\ cfg.FROM_EMAIL # ""
    /\ cfg.SMTP_HOST # ""
    /\ cfg.SMTP_USER # ""

\* TO_EMAIL and FROM_EMAIL and SMTP_HOST and SMTP_USER and SMTP_PASS
MailConfigured ==
    /\ cfg.TO_EMAIL # ""
    /\ cfg.FROM_EMAIL # ""
    /\ cfg.SMTP_HOST # ""
    /\ cfg.SMTP_USER # ""
    /\ cfg.SMTP_PASS # ""

\* The EmailMessage send_email builds from a subject and a body.
EmailMessage(alert) ==
    [Subject |-> alert.subject, From |-> cfg.FROM_EMAIL, To |-> cfg.TO_EMAIL,
     content |-> alert.body]

\* ------------------------------------------------------------- decision

BUY_MINUTE == 40
SELL_MINUTE == 55

\* The DRY_RUN branch with the BUY minute test dropped.
DryRunAlert_BuyAnyMinute(q, minute) ==
    IF q = 0
    THEN Some([alert |-> buy_alert(1), printed |-> "Sent DRY_RUN BUY."])
    ELSE IF q > 0 /\ minute = SELL_MINUTE
    THEN Some([alert |-> sell_alert(q, "DRY_RUN exit"),
               printed |-> "Sent DRY_RUN SELL."])
    ELSE None

\* The DRY_RUN branch: the alert to send and the line printed after it, or
\* None when no message goes out this minute.
DryRunAlert(q, minute) ==
    IF q = 0 /\ minute = BUY_MINUTE
    THEN Some([alert |-> buy_alert(1), printed |-> "Sent DRY_RUN BUY."])
    ELSE IF q > 0 /\ minute = SELL_MINUTE
    THEN Some([alert |-> sell_alert(q, "DRY_RUN exit"),
               printed |-> "Sent DRY_RUN SELL."])
    ELSE None

\* ------------------------------------------------------------- inputs

Time(d, h, m, s) == [day |-> d, hour |-> h, minute |-> m, second |-> s]

Stamp(t) == ((t.day * 24 + t.hour) * 60 + t.minute) * 60 + t.second

\* Clock readings around the default window and the two trigger minutes.
ClockTimes ==
    {Time(1, 13, 55, 0), Time(1, 14, 34, 59), Time(1, 14, 35, 0),
     Time(1, 14, 40, 30), Time(1, 15, 41, 0), Time(1, 15, 55, 0),
     Time(1, 16, 0, 59), Time(1, 16, 40, 0)}

\* Every minute of every day up to MaxDay, at its first and last second.
AllTimes ==
    {Time(d, h, m, s) : d \in 1..MaxDay, h \in 0..23, m \in 0..59, s \in {0, 59}}

\* "HH:MM" as an operator writes it: two digits, a colon, two digits.
HHMM(h, m) ==
    <<Digits[(h \div 10) + 1], Digits[(h % 10) + 1], ":",
      Digits[(m \div 10) + 1], Digits[(m % 10) + 1]>>

WINDOW_START_DEFAULT == HHMM(14, 35)
WINDOW_END_DEFAULT == HHMM(16, 0)

\* Boundaries (hour, minute) the window check is tried with.
Boundaries == {<<0, 0>>, <<14, 35>>, <<16, 0>>, <<23, 59>>}

Modes ==
    {DRY_RUN,
     <<"d", "r", "y", "_", "r", "u", "n">>,
     <<"D", "r", "y", "_", "R", "u", "n">>,
     <<"L", "I", "V", "E">>,
     <<"D", "R", "Y", "R", "U", "N">>,
     <<>>}

\* (start, end) pairs: the default, an empty window, a malformed end.
Windows ==
    {<<WINDOW_START_DEFAULT, WINDOW_END_DEFAULT>>,
     <<WINDOW_END_DEFAULT, WINDOW_START_DEFAULT>>,
     <<WINDOW_START_DEFAULT, <<"1", "6", "0", "0">> >>}

Config(mode, w, to, from, host, user, pass, symbol) ==
    [MODE |-> mode, WINDOW_START_UTC |-> w[1], WINDOW_END_UTC |-> w[2],
     TO_EMAIL |-> to, FROM_EMAIL |-> from, SMTP_HOST |-> host,
     SMTP_USER |-> user, SMTP_PASS |-> pass, SYMBOL |-> symbol]

\* Every mail setting is either unset (the default "") or set.
Configs ==
    {Config(mode, w, to, from, host, user, pass, symbol) :
        mode \in Modes, w \in Windows,
        to \in {"", "me@example.com"}, from \in {"", "bot@example.com"},
        host \in {"", "smtp.example.com"}, user \in {"", "bot"},
        pass \in {"", "secret"}, symbol \in {"SPY", "QQQ"}}

\* The decimal digits of a natural number, as characters.
RECURSIVE NatChars(_)
NatChars(n) ==
    IF n < 10 THEN <<Digits[n + 1]>>
    ELSE Append(NatChars(n \div 10), Digits[(n % 10) + 1])

\* The ways to write a boundary that int() reads as (h, m): zero-padded or not.
HHMMForms(h, m) == {HHMM(h, m), NatChars(h) \o <<":">> \o NatChars(m)}

\* The default configuration with every well-formed window over Boundaries.
WindowConfigs ==
    {Config(DRY_RUN, <<a, b>>, "me@example.com", "bot@example.com",
            "smtp.example.com", "bot", "secret", "SPY") :
        a \in UNION {HHMMForms(x[1], x[2]) : x \in Boundaries},
        b \in UNION {HHMMForms(x[1], x[2]) : x \in Boundaries}}

\* Configurations of the invocations a scheduler starts side by side.
ConcConfigs ==
    {Config(mode, <<WINDOW_START_DEFAULT, WINDOW_END_DEFAULT>>, to,
            "bot@example.com", "smtp.example.com", "bot", "secret", "SPY") :
        mode \in {<<"d", "r", "y", "_", "r", "u", "n">>, <<"L", "I", "V", "E">>},
        to \in {"", "me@example.com"}}

\* qty as the brokerage may write it: signed (short positions are negative),
\* whole or fractional; and values that are no number.
QtyStrings ==
    {sign \o NatChars(w) \o frac :
        sign \in {<<>>, <<"-">>}, w \in 0..MaxQty,
        frac \in {<<>>, <<".", "0">>, <<".", "7">>}}
    \cup {<<"a", "b", "c">>, <<"n", "a", "n">>, <<"i", "n", "f">>, <<>>}

Bodies ==
    {[kind |-> "object", qty |-> q] : q \in {None} \cup {Some(s) : s \in QtyStrings}}
    \cup {[kind |-> "array", qty |-> None], [kind |-> "malformed", qty |-> None]}

\* What one GET can come back with.
Responses ==
    {[kind |-> "http", status |-> 200, body |-> b] : b \in Bodies}
    \cup {[kind |-> "http", status |-> st, body |-> [kind |-> "malformed", qty |-> None]] :
            st \in {401, 404, 500}}
    \cup {[kind |-> "neterr", status |-> 0, body |-> [kind |-> "malformed", qty |-> None]]}

Http(st, b) == [kind |-> "http", status |-> st, body |-> b]

\* One account state at a time (no position, or a position of some qty), and
\* a brokerage that may also fail with HTTP 500.
ConcBrokers ==
    {{r, Http(500, [kind |-> "malformed", qty |-> None])} :
        r \in {Http(404, [kind |-> "malformed", qty |-> None]),
                Http(200, [kind |-> "object", qty |-> None])}
           \cup {Http(200, [kind |-> "object", qty |-> Some(q)]) :
                    q \in {<<"0">>, <<"1">>, NatChars(MaxQty) \o <<".", "0">>, <<"-", "1">>}}}

\* ------------------------------------------------------------- actions

InitRuns(configs, times, brokers, started) ==
    /\ cfg \in configs
    /\ now \in times
    /\ broker \in brokers
    /\ mailbox = <<>>
    /\ pc = [p \in Procs |-> IF p \in started THEN "window" ELSE "absent"]
    /\ dt = [p \in Procs |-> None]
    /\ resp = [p \in Procs |-> None]
    /\ qty_open = [p \in Procs |-> None]
    /\ msg = [p \in Procs |-> None]
    /\ gets = [p \in Procs |-> <<>>]
    /\ sendCalls = [p \in Procs |-> <<>>]
    /\ sessions = [p \in Procs |-> 0]
    /\ stdout = [p \in Procs |-> <<>>]
    /\ stderr = [p \in Procs |-> <<>>]
    /\ exc = [p \in Procs |-> None]

\* One invocation of the program.
Init == InitRuns(Configs, ClockTimes, {Responses}, {1})

\* Time passes; only an invocation that has not read the clock can tell.
Tick ==
    /\ \E p \in Procs : pc[p] = "window"
    /\ \E t \in ClockTimes : Stamp(t) > Stamp(now) /\ now' = t
    /\ UNCHANGED <<cfg, broker, mailbox, pc, dt, resp, qty_open, msg, gets, sendCalls,
                   sessions, stdout, stderr, exc>>

\* The window check without its return: prints, then goes on to the fetch.
CheckWindow_NoReturn(p) ==
    /\ pc[p] = "window"
    /\ dt' = [dt EXCEPT ![p] = Some(now)]
    /\ LET w == in_window_utc(now)
       IN  IF ~w.ok
           THEN /\ pc' = [pc EXCEPT ![p] = "raised"]
                /\ exc' = [exc EXCEPT ![p] = Some(w.exc)]
                /\ UNCHANGED stdout
           ELSE IF ~w.val
           THEN /\ pc' = [pc EXCEPT ![p] = "fetch"]
                /\ stdout' = [stdout EXCEPT ![p] = Append(@, "Outside window; exiting.")]
                /\ UNCHANGED exc
           ELSE /\ pc' = [pc EXCEPT ![p] = "fetch"]
                /\ UNCHANGED <<stdout, exc>>
    /\ UNCHANGED <<cfg, now, broker, mailbox, resp, qty_open, msg, gets, sendCalls,
                   sessions, stderr>>

\* dt = now_utc(); if not in_window_utc(dt): print, return
CheckWindow(p) ==
    /\ pc[p] = "window"
    /\ dt' = [dt EXCEPT ![p] = Some(now)]
    /\ LET w == in_window_utc(now)
       IN  IF ~w.ok
           THEN /\ pc' = [pc EXCEPT ![p] = "raised"]
                /\ exc' = [exc EXCEPT ![p] = Some(w.exc)]
                /\ UNCHANGED stdout
           ELSE IF ~w.val
           THEN /\ pc' = [pc EXCEPT ![p] = "exited"]
                /\ stdout' = [stdout EXCEPT ![p] = Append(@, "Outside window; exiting.")]
                /\ UNCHANGED exc
           ELSE /\ pc' = [pc EXCEPT ![p] = "fetch"]
                /\ UNCHANGED <<stdout, exc>>
    /\ UNCHANGED <<cfg, now, broker, mailbox, resp, qty_open, msg, gets, sendCalls,
                   sessions, stderr>>

\* qty_open = get_open_position_qty(SYMBOL): one GET, answered by r
FetchPosition(p) ==
    /\ pc[p] = "fetch"
    /\ \E r \in broker :
        /\ gets' = [gets EXCEPT ![p] = Append(@, "/v2/positions/" \o cfg.SYMBOL)]
        /\ resp' = [resp EXCEPT ![p] = Some(r)]
        /\ LET q == get_open_position_qty(r)
           IN  IF q.ok
               THEN /\ qty_open' = [qty_open EXCEPT ![p] = Some(q.val)]
                    /\ pc' = [pc EXCEPT ![p] = "decide"]
                    /\ UNCHANGED exc
               ELSE /\ exc' = [exc EXCEPT ![p] = Some(q.exc)]
                    /\ pc' = [pc EXCEPT ![p] = "raised"]
                    /\ UNCHANGED qty_open
    /\ UNCHANGED <<cfg, now, broker, mailbox, dt, msg, sendCalls, sessions, stdout, stderr>>

\* The mode branch of decide_and_notify, with send_email up to the point
\* where it opens the SMTP session.
Decide(p) ==
    /\ pc[p] = "decide"
    /\ LET d == DryRunAlert(Get(qty_open[p]), Get(dt[p]).minute)
       IN  IF ~IsDryRun
           THEN /\ stdout' = [stdout EXCEPT ![p] = Append(@, "LIVE: strategy not enabled; no alerts.")]
                /\ pc' = [pc EXCEPT ![p] = "exited"]
                /\ UNCHANGED <<sendCalls, stderr, msg>>
           ELSE IF d = None
           THEN /\ stdout' = [stdout EXCEPT ![p] = Append(@, "DRY_RUN: no message this minute.")]
                /\ pc' = [pc EXCEPT ![p] = "exited"]
                /\ UNCHANGED <<sendCalls, stderr, msg>>
           ELSE /\ sendCalls' = [sendCalls EXCEPT ![p] = Append(@, Get(d).alert)]
                /\ IF ~MailConfigured
                   THEN /\ stderr' = [stderr EXCEPT ![p] = Append(@, "Missing email/SMTP env vars; cannot send.")]
                        /\ stdout' = [stdout EXCEPT ![p] = Append(@, Get(d).printed)]
                        /\ pc' = [pc EXCEPT ![p] = "exited"]
                        /\ UNCHANGED msg
                   ELSE /\ msg' = [msg EXCEPT ![p] = Some([message |-> EmailMessage(Get(d).alert),
                                                          printed |-> Get(d).printed])]
                        /\ pc' = [pc EXCEPT ![p] = "smtp"]
                        /\ UNCHANGED <<stdout, stderr>>
    /\ UNCHANGED <<cfg, now, broker, mailbox, dt, resp, qty_open, gets, sessions, exc>>

\* A send that skips a message the mailbox already holds.
SmtpSend_Dedup(p) ==
    /\ pc[p] = "smtp"
    /\ sessions' = [sessions EXCEPT ![p] = @ + 1]
    /\ \E delivered \in BOOLEAN :
        IF delivered
        THEN /\ mailbox' = IF \E i \in DOMAIN mailbox : mailbox[i] = Get(msg[p]).message
                           THEN mailbox
                           ELSE Append(mailbox, Get(msg[p]).message)
             /\ stdout' = [stdout EXCEPT ![p] = Append(@, Get(msg[p]).printed)]
             /\ pc' = [pc EXCEPT ![p] = "exited"]
             /\ UNCHANGED exc
        ELSE /\ exc' = [exc EXCEPT ![p] = Some([type |-> "SMTPException", status |-> 0])]
             /\ pc' = [pc EXCEPT ![p] = "raised"]
             /\ UNCHANGED <<mailbox, stdout>>
    /\ UNCHANGED <<cfg, now, broker, dt, resp, qty_open, msg, gets, sendCalls, stderr>>

\* with smtplib.SMTP(...) as s: starttls, login, send_message; then the
\* caller's print.  The session either delivers the message or fails.
SmtpSend(p) ==
    /\ pc[p] = "smtp"
    /\ sessions' = [sessions EXCEPT ![p] = @ + 1]
    /\ \E delivered \in BOOLEAN :
        IF delivered
        THEN /\ mailbox' = Append(mailbox, Get(msg[p]).message)
             /\ stdout' = [stdout EXCEPT ![p] = Append(@, Get(msg[p]).printed)]
             /\ pc' = [pc EXCEPT ![p] = "exited"]
             /\ UNCHANGED exc
        ELSE /\ exc' = [exc EXCEPT ![p] = Some([type |-> "SMTPException", status |-> 0])]
             /\ pc' = [pc EXCEPT ![p] = "raised"]
             /\ UNCHANGED <<mailbox, stdout>>
    /\ UNCHANGED <<cfg, now, broker, dt, resp, qty_open, msg, gets, sendCalls, stderr>>

Next ==
    \/ Tick
    \/ \E p \in Procs : CheckWindow(p)
    \/ \E p \in Procs : FetchPosition(p)
    \/ \E p \in Procs : Decide(p)
    \/ \E p \in Procs : SmtpSend(p)

Spec == Init /\ [][Next]_vars

\* The window check alone, over every minute of the day.
InitWindow == InitRuns(WindowConfigs, AllTimes, {Responses}, {1})

NextWindow == \E p \in Procs : CheckWindow(p)

SpecWindow == InitWindow /\ [][NextWindow]_vars

\* The scheduler starts every invocation at once; they run interleaved.
InitConc == InitRuns(ConcConfigs, ClockTimes, ConcBrokers, Procs)

SpecConc == InitConc /\ [][Next]_vars

\* ------------------------------------------------------------- properties

Range(f) == {f[i] : i \in DOMAIN f}

Minute(p) == Get(dt[p]).minute

MinuteOfDay(t) == t.hour * 60 + t.minute

Mins(b) == b[1] * 60 + b[2]

\* The position fetch of p completed with a quantity.
Fetched(p) == qty_open[p] # None

Qty(p) == Get(qty_open[p])

\* p went through the mode branch.
PastDecide(p) == Fetched(p) /\ pc[p] \in {"smtp", "exited", "raised"}

SameLetter(c, d) ==
    c = d \/ \E i \in 1..26 : {c, d} = {LowerCase[i], UpperCase[i]}

EqualsIgnoreCase(a, b) ==
    Len(a) = Len(b) /\ \A i \in 1..Len(a) : SameLetter(a[i], b[i])

\* MODE is "DRY_RUN" in some casing.
TestMode == EqualsIgnoreCase(cfg.MODE, DRY_RUN)

AllMailSet ==
    \A f \in {"TO_EMAIL", "FROM_EMAIL", "SMTP_HOST", "SMTP_USER", "SMTP_PASS"} :
        cfg[f] # ""

\* The configured boundaries are written forms of a and b.
WindowIs(a, b) ==
    /\ cfg.WINDOW_START_UTC \in HHMMForms(a[1], a[2])
    /\ cfg.WINDOW_END_UTC \in HHMMForms(b[1], b[2])

\* t's minute of the day lies in [a, b], both ends included.
Between(a, t, b) == Mins(a) <= MinuteOfDay(t) /\ MinuteOfDay(t) <= Mins(b)

\* t is outside the configured window: the check says so, or the boundaries
\* read as numbers do.
OutsideWindow(t) ==
    \/ in_window_utc(t) = Return(FALSE)
    \/ \E a, b \in Boundaries : WindowIs(a, b) /\ ~Between(a, t, b)

BuyCalls(p) ==
    {i \in DOMAIN sendCalls[p] :
        sendCalls[p][i].subject = "BUY SPY [U+2014] ACTION REQUIRED"}

\* C1: a run whose clock reading is outside the window ends right after the
\* window check: it has exited, printed only the outside-window line, issued
\* no GET, received no answer, and called send_email never; no SMTP session
\* was opened and no mail delivered, whatever the mode.
C1_OutsideWindowEndsRun ==
    \A p \in Procs :
        (dt[p] # None /\ OutsideWindow(Get(dt[p]))) =>
            /\ pc[p] = "exited"
            /\ stdout[p] = <<"Outside window; exiting.">>
            /\ gets[p] = <<>>
            /\ resp[p] = None
            /\ qty_open[p] = None
            /\ sendCalls[p] = <<>>
            /\ msg[p] = None
            /\ sessions[p] = 0
            /\ mailbox = <<>>

\* A DRY_RUN run with mail configured, started at minute 40 but outside the
\* window, has exited.
C1_Witness ==
    \E p \in Procs :
        /\ pc[p] = "exited"
        /\ dt[p] # None
        /\ OutsideWindow(Get(dt[p]))
        /\ Minute(p) = 40
        /\ TestMode
        /\ AllMailSet

\* C2: for well-formed boundaries a and b, the window check lets the run
\* through exactly when a.h*60+a.m <= t.hour*60+t.minute <= b.h*60+b.m, both
\* ends included, and in_window_utc gives that same answer on every day and
\* at every second of that minute.
C2_InWindowIffBetween ==
    \A p \in Procs :
        dt[p] # None =>
            \A a, b \in Boundaries :
                WindowIs(a, b) =>
                    LET t == Get(dt[p])
                        inside == Between(a, t, b)
                    IN  /\ pc[p] = IF inside THEN "fetch" ELSE "exited"
                        /\ \A d \in 1..MaxDay, s \in {0, 59} :
                               in_window_utc(Time(d, t.hour, t.minute, s))
                                   = Return(inside)

\* A run let through at the very last minute of the window, at its last
\* second, on a later day.
C2_Witness ==
    \E p \in Procs :
        /\ pc[p] = "fetch"
        /\ WindowIs(<<14, 35>>, <<16, 0>>)
        /\ MinuteOfDay(Get(dt[p])) = 16 * 60
        /\ Get(dt[p]).second = 59
        /\ Get(dt[p]).day > 1

\* C3: in test mode a run calls send_email with a BUY alert at most once; it
\* does so only with a fetched quantity of 0 at minute 40, with quantity 1 in
\* the body; and a run past the mode branch with quantity 0 at minute 40 has
\* made exactly that one call.
C3_BuyIffFlatAtMinute40 ==
    \A p \in Procs :
        TestMode =>
            /\ Cardinality(BuyCalls(p)) <= 1
            /\ BuyCalls(p) # {} =>
                   /\ Fetched(p) /\ Qty(p) = 0 /\ Minute(p) = 40
                   /\ sendCalls[p][1].body[2] = "Qty: 1"
            /\ (PastDecide(p) /\ Qty(p) = 0 /\ Minute(p) = 40) =>
                   /\ BuyCalls(p) # {}
                   /\ Len(sendCalls[p]) = 1

\* A run with MODE in another casing than "DRY_RUN" sent its BUY alert and
\* exited.
C3_Witness ==
    \E p \in Procs :
        /\ pc[p] = "exited"
        /\ TestMode
        /\ cfg.MODE # DRY_RUN
        /\ BuyCalls(p) # {}
        /\ mailbox # <<>>

SellCalled(p, reason) ==
    /\ Len(sendCalls[p]) = 1
    /\ sendCalls[p][1].subject = "SELL SPY [U+2014] ACTION REQUIRED"
    /\ ("Qty: " \o IntStr(Qty(p))) \in Range(sendCalls[p][1].body)
    /\ ("Reason: " \o reason) \in Range(sendCalls[p][1].body)

\* C4 as the spec states it: the SELL body carries "Reason: test exit".
C4_SellReasonTestExit ==
    \A p \in Procs :
        (TestMode /\ PastDecide(p) /\ Qty(p) > 0 /\ Minute(p) = 55) =>
            SellCalled(p, "test exit")

\* C4: in test mode a run past the mode branch with a fetched quantity q > 0
\* at minute 55 has called send_email exactly once, with a SELL alert whose
\* body carries "Qty: q" and "Reason: DRY_RUN exit".
C4_SellReasonDryRunExit ==
    \A p \in Procs :
        (TestMode /\ PastDecide(p) /\ Qty(p) > 0 /\ Minute(p) = 55) =>
            SellCalled(p, "DRY_RUN exit")

\* A run holding more than one share sent its SELL alert and exited.
C4_Witness ==
    \E p \in Procs :
        /\ pc[p] = "exited"
        /\ TestMode
        /\ Fetched(p) /\ Qty(p) > 1 /\ Minute(p) = 55
        /\ sendCalls[p] # <<>>
        /\ mailbox # <<>>

\* C5: when MODE is not "DRY_RUN" in any casing, a run never calls
\* send_email, opens no SMTP session and delivers nothing, and past the mode
\* branch it has exited printing the LIVE line; when MODE is "DRY_RUN" in
\* some casing, a run never prints the LIVE line and calls send_email exactly
\* at the two test triggers.
C5_LiveModeNeverMails ==
    \A p \in Procs :
        /\ ~TestMode =>
               /\ sendCalls[p] = <<>>
               /\ msg[p] = None
               /\ sessions[p] = 0
               /\ stderr[p] = <<>>
               /\ mailbox = <<>>
               /\ PastDecide(p) =>
                      /\ pc[p] = "exited"
                      /\ stdout[p] = <<"LIVE: strategy not enabled; no alerts.">>
        /\ TestMode =>
               /\ "LIVE: strategy not enabled; no alerts." \notin Range(stdout[p])
               /\ PastDecide(p) =>
                      (sendCalls[p] # <<>> <=>
                          \/ Qty(p) = 0 /\ Minute(p) = 40
                          \/ Qty(p) > 0 /\ Minute(p) = 55)

\* A LIVE run with mail configured that fetched a flat position at minute 40
\* and exited.
C5_Witness ==
    \E p \in Procs :
        /\ pc[p] = "exited"
        /\ cfg.MODE = <<"L", "I", "V", "E">>
        /\ AllMailSet
        /\ Fetched(p) /\ Qty(p) = 0 /\ Minute(p) = 40

\* A failure of the fetch other than HTTP 404: no connection, an error
\* status, or a body that is no JSON.
FetchFailure(r) ==
    \/ r.kind = "neterr"
    \/ r.kind = "http" /\ r.status \in (400..599) \ {404}
    \/ r.kind = "http" /\ r.status = 200 /\ r.body.kind = "malformed"

\* C6: a run whose GET failed with anything but HTTP 404 has ended with the
\* fetch's exception, holds no quantity, and never called send_email, opened
\* an SMTP session or delivered mail.
C6_FetchFailureAbortsRun ==
    \A p \in Procs :
        (resp[p] # None /\ FetchFailure(Get(resp[p]))) =>
            /\ pc[p] = "raised"
            /\ exc[p] # None
            /\ Get(exc[p]).type \in {"HTTPError", "ConnectionError", "JSONDecodeError"}
            /\ qty_open[p] = None
            /\ sendCalls[p] = <<>>
            /\ msg[p] = None
            /\ sessions[p] = 0
            /\ mailbox = <<>>

\* A DRY_RUN run with mail configured, at minute 40, ended by an HTTP 500.
C6_Witness ==
    \E p \in Procs :
        /\ pc[p] = "raised"
        /\ resp[p] # None
        /\ Get(resp[p]).kind = "http" /\ Get(resp[p]).status = 500
        /\ TestMode /\ AllMailSet
        /\ Minute(p) = 40

\* C7: a run whose GET came back with HTTP 404 holds quantity 0, went on to
\* the mode branch with no exception from the fetch, and in test mode at
\* minute 40 has called send_email with the BUY alert.
C7_NotFoundIsFlat ==
    \A p \in Procs :
        (resp[p] # None /\ Get(resp[p]).kind = "http" /\ Get(resp[p]).status = 404) =>
            /\ qty_open[p] = Some(0)
            /\ pc[p] \in {"decide", "smtp", "exited", "raised"}
            /\ pc[p] = "raised" => Get(exc[p]).type = "SMTPException"
            /\ pc[p] # "raised" => exc[p] = None
            /\ (TestMode /\ PastDecide(p) /\ Minute(p) = 40) => BuyCalls(p) # {}

\* A test-mode run answered with 404 at minute 40 delivered its BUY alert.
C7_Witness ==
    \E p \in Procs :
        /\ pc[p] = "exited"
        /\ resp[p] # None
        /\ Get(resp[p]).status = 404
        /\ TestMode
        /\ Minute(p) = 40
        /\ BuyCalls(p) # {}
        /\ mailbox # <<>>

\* C8: when one of the five mail settings is empty, a run that called
\* send_email opened no SMTP session and built no message, nothing was
\* delivered, the diagnostic is on its error stream, and it exited normally.
C8_MissingMailSettingSkipsSend ==
    \A p \in Procs :
        (~AllMailSet /\ sendCalls[p] # <<>>) =>
            /\ pc[p] = "exited"
            /\ exc[p] = None
            /\ sessions[p] = 0
            /\ msg[p] = None
            /\ mailbox = <<>>
            /\ stderr[p] = <<"Missing email/SMTP env vars; cannot send.">>

\* A run with only SMTP_PASS empty called send_email and exited.
C8_Witness ==
    \E p \in Procs :
        /\ cfg.SMTP_PASS = ""
        /\ cfg.TO_EMAIL # "" /\ cfg.FROM_EMAIL # ""
        /\ cfg.SMTP_HOST # "" /\ cfg.SMTP_USER # ""
        /\ sendCalls[p] # <<>>
        /\ pc[p] = "exited"

\* C9: the quantity a run holds after its fetch is never negative.
C9_QtyNeverNegative ==
    \A p \in Procs : Fetched(p) => Qty(p) >= 0

\* p's message was accepted by the mail server.
Delivered(p) == pc[p] = "exited" /\ msg[p] # None

Copies(m) == Cardinality({i \in DOMAIN mailbox : mailbox[i] = m})

\* C10: nothing deduplicates across invocations: the mailbox holds one
\* message per run that delivered, so as many copies of an alert as runs
\* that sent it; and whether a run calls send_email depends only on the mode
\* and on its own quantity and minute, whatever the other runs did.
C10_NoDeduplication ==
    /\ Len(mailbox) = Cardinality({p \in Procs : Delivered(p)})
    /\ \A p \in Procs :
           Delivered(p) =>
               Copies(Get(msg[p]).message)
                   = Cardinality({q \in Procs : Delivered(q) /\ msg[q] = msg[p]})
    /\ \A p \in Procs :
           PastDecide(p) =>
               (sendCalls[p] # <<>> <=>
                   /\ TestMode
                   /\ \/ Qty(p) = 0 /\ Minute(p) = 40
                      \/ Qty(p) > 0 /\ Minute(p) = 55)

\* Two runs that read the clock in the same minute and got the same answer
\* from the brokerage both delivered the same alert.
C10_Witness ==
    \E p, q \in Procs :
        /\ p # q
        /\ Delivered(p) /\ Delivered(q)
        /\ dt[p] = dt[q]
        /\ resp[p] = resp[q]
        /\ msg[p] = msg[q]
        /\ Len(mailbox) = 2
        /\ mailbox[1] = mailbox[2]

====
